---- MODULE Spec2Model ----
(***************************************************************************)
(* A model of packages/core/src/common/resource.ts: the Resource contract, *)
(* the save orchestrator Resource.save with its change-size heuristic, the *)
(* resolver chain of DefaultResourceProvider, and the in-memory registry   *)
(* InMemoryResources with its MutableResource instances.                   *)
(***************************************************************************)
EXTENDS Integers, Sequences, FiniteSets, TLC

(***************************************************************************)
(* Bounds of the model.                                                    *)
(***************************************************************************)
MaxContentLen == 100  \* longest content the heuristic is tried on
MaxChanges == 2       \* longest change list the heuristic is tried on

(***************************************************************************)
(* Values standing for JavaScript's undefined and for the outcomes of a    *)
(* call: "ok", or the kind of the error it raised.                         *)
(***************************************************************************)
Undefined == "undefined"
\* An optional value that is no string: absent, or present with its value.
Absent == {}
Some(v) == {v}
The(opt) == CHOOSE v \in opt : TRUE
Ok == "ok"
NotFound == "NotFound"          \* ResourceError.NotFound, code -40000
OutOfSync == "OutOfSync"        \* ResourceError.OutOfSync, code -40001
OtherError == "OtherError"      \* any error that is neither of the two

(***************************************************************************)
(* Strings.  A content is a string; only its length and its identity       *)
(* matter to this file.  The text of a change is a sequence of characters, *)
(* so that JSON.stringify can escape it character by character.            *)
(***************************************************************************)
RECURSIVE Repeat(_, _)
Repeat(c, n) == IF n = 0 THEN "" ELSE c \o Repeat(c, n - 1)

\* The number of decimal digits JSON.stringify writes for a natural number.
RECURSIVE Digits(_)
Digits(n) == IF n < 10 THEN 1 ELSE 1 + Digits(n \div 10)

\* The length of one character inside a JSON string: a quote and a
\* backslash are written with an escaping backslash.
EscapedLen(c) == IF c \in {"\"", "\\"} THEN 2 ELSE 1

RECURSIVE JsonStringLen(_)
JsonStringLen(text) ==
    IF text = <<>> THEN 2
    ELSE EscapedLen(Head(text)) + JsonStringLen(Tail(text))

JsonPositionLen(pos) ==
    Len("{\"line\":") + Digits(pos.line)
        + Len(",\"character\":") + Digits(pos.character) + Len("}")

JsonRangeLen(range) ==
    Len("{\"start\":") + JsonPositionLen(range.start)
        + Len(",\"end\":") + JsonPositionLen(range.end) + Len("}")

\* JSON.stringify(change).length for a TextDocumentContentChangeEvent, which
\* is either { text } or { range, text }.
JsonStringifyLen(change) ==
    IF change.range = Absent
    THEN Len("{\"text\":") + JsonStringLen(change.text) + Len("}")
    ELSE Len("{\"range\":") + JsonRangeLen(The(change.range))
            + Len(",\"text\":") + JsonStringLen(change.text) + Len("}")

(***************************************************************************)
(* Resource.shouldSaveContent: the loop over the changes with its early    *)
(* return, then the final comparison.                                      *)
(***************************************************************************)
RECURSIVE ChangesLoop(_, _, _, _)
ChangesLoop(changes, i, contentChangesLength, contentLength) ==
    IF i > Len(changes)
    THEN contentChangesLength > contentLength
    ELSE LET sum == contentChangesLength + JsonStringifyLen(changes[i])
         IN  IF sum > contentLength
             THEN TRUE
             ELSE ChangesLoop(changes, i + 1, sum, contentLength)

RECURSIVE ChangesLoop_atLeast(_, _, _, _)
ChangesLoop_atLeast(changes, i, contentChangesLength, contentLength) ==
    IF i > Len(changes)
    THEN contentChangesLength >= contentLength
    ELSE LET sum == contentChangesLength + JsonStringifyLen(changes[i])
         IN  IF sum >= contentLength
             THEN TRUE
             ELSE ChangesLoop_atLeast(changes, i + 1, sum, contentLength)

shouldSaveContent_ignoreAbsent(context) ==
    ChangesLoop(IF context.changes = Absent THEN <<>> ELSE The(context.changes),
                1, 0, Len(context.content))

shouldSaveContent_atLeast(context) ==
    IF context.changes = Absent
    THEN TRUE
    ELSE ChangesLoop_atLeast(The(context.changes), 1, 0, Len(context.content))

shouldSaveContent(context) ==
    IF context.changes = Absent
    THEN TRUE
    ELSE ChangesLoop(The(context.changes), 1, 0, Len(context.content))

(***************************************************************************)
(* The inputs the heuristic is tried on.                                   *)
(***************************************************************************)
Texts == {<<>>, <<"a">>, <<"\"">>, <<"a", "\\">>}
Ranges == {Absent,
           Some([start |-> [line |-> 0, character |-> 0],
                 end |-> [line |-> 0, character |-> 1]]),
           Some([start |-> [line |-> 10, character |-> 0],
                 end |-> [line |-> 10, character |-> 0]])}
Changes == [range : Ranges, text : Texts]

RECURSIVE SeqsUpTo(_, _)
SeqsUpTo(S, n) ==
    IF n = 0 THEN {<<>>}
    ELSE LET shorter == SeqsUpTo(S, n - 1)
         IN  shorter \cup {Append(s, x) : s \in shorter, x \in S}

RECURSIVE SumLen(_)
SumLen(changes) ==
    IF changes = <<>> THEN 0
    ELSE JsonStringifyLen(Head(changes)) + SumLen(Tail(changes))

(***************************************************************************)
(* The resources.  Resource 0 is a resource of some other backing store:   *)
(* which of the optional members saveContents and saveContentChanges it    *)
(* has is fixed when it is constructed, and the outcome of a call of them  *)
(* is the store's.  Resources 1..MaxInst are the MutableResource instances *)
(* that InMemoryResources.add constructs.                                  *)
(***************************************************************************)
MaxInst == 2          \* MutableResource instances constructed in one run
MaxSaves == 2         \* calls of Resource.save in one run
MaxCalls == 5         \* calls on the registry and its instances in one run
MaxResolvers == 3     \* resolvers registered with the provider

Generic == 0
NoResource == -1
Instances == 1..MaxInst
Resources == {Generic} \cup Instances
Savers == {1, 2}

Contents == {"", Repeat("a", 12)}
OldContent == "old"
Options == {Absent, Some([version |-> "v1"])}
SaveChanges ==
    {Absent, Some(<<>>), Some(<<[range |-> Absent, text |-> <<"a">>]>>),
     Some(<<[range |-> Some([start |-> [line |-> 0, character |-> 0],
                             end |-> [line |-> 0, character |-> 1]]),
             text |-> <<>>]>>)}
SaveContexts == [content : Contents, changes : SaveChanges, options : Options]
\* A CancellationToken: absent, present and not cancelled, or cancelled.
Tokens == {Undefined, "live", "cancelled"}
Errors == {NotFound, OutOfSync, OtherError}

VARIABLES
    hPc, hContext, hResult,     \* a call of shouldSaveContent
    caps,       \* caps[r]: which optional members resource r has
    contents,   \* contents[r]: the content of r (MutableResource.contents)
    fired,      \* fired[r]: events fired by r's onDidChangeContents emitter
    writes,     \* writes[r]: successful replacements of r's content
    sv,         \* sv[p]: the call of Resource.save that p runs
    saves,      \* calls of Resource.save made so far
    passed,     \* saves that came to line 95 and did not find cancellation
    resources,  \* InMemoryResources.resources: key -> instance
    created,    \* MutableResource instances constructed so far
    disposeKey, \* disposeKey[i]: the resourceUri that i's dispose deletes
    initial,    \* initial[i]: the contents i was constructed with
    addReturned,\* addReturned[k]: what the last successful add of k returned
    disposed,   \* disposed[k]: an instance added as k was disposed since
    released,   \* the instances whose dispose has been called
    lastCall,   \* the last call on the registry or one of its instances
    calls,      \* calls on the registry and its instances so far
    resolvers,  \* the contributions of the ContributionProvider, in order
    gt          \* the call of DefaultResourceProvider.get

heurVars == <<hPc, hContext, hResult>>
resVars == <<caps, contents, fired, writes>>
saveVars == <<sv, saves, passed>>
memVars == <<resources, created, disposeKey, initial, addReturned, disposed,
             released, lastCall, calls>>
provVars == <<resolvers, gt>>
vars == <<heurVars, resVars, saveVars, memVars, provVars>>

(***************************************************************************)
(* A call of shouldSaveContent on a context drawn from the inputs.         *)
(***************************************************************************)
HeurContexts ==
    [content : {Repeat("x", n) : n \in 0..MaxContentLen},
     changes : {Absent} \cup {Some(c) : c \in SeqsUpTo(Changes, MaxChanges)},
     options : {Absent}]

NoContext == [content |-> "", changes |-> Absent, options |-> Absent]

HeurIdle == hPc = "idle" /\ hContext = NoContext /\ hResult = Absent

HeurInit == hPc = "ready" /\ hContext \in HeurContexts /\ hResult = Absent

HeurCall ==
    /\ hPc = "ready"
    /\ hResult' = Some(shouldSaveContent(hContext))
    /\ hPc' = "done"
    /\ UNCHANGED <<hContext, resVars, saveVars, memVars, provVars>>

(***************************************************************************)
(* MutableResource and the members of a resource of another store.         *)
(***************************************************************************)
NoCaps == [saveContents |-> FALSE, saveContentChanges |-> FALSE]
MutableCaps == [saveContents |-> TRUE, saveContentChanges |-> FALSE]

\* MutableResource.fireDidChangeContents
fireDidChangeContents(r, f) == [f EXCEPT ![r] = @ + 1]

\* MutableResource.saveContents: the body runs when it is called.
saveContents_append(r, content) ==
    /\ contents' = [contents EXCEPT ![r] = @ \o content]
    /\ fired' = fireDidChangeContents(r, fired)
    /\ writes' = [writes EXCEPT ![r] = @ + 1]
saveContents_silent(r, content) ==
    /\ contents' = [contents EXCEPT ![r] = content]
    /\ writes' = [writes EXCEPT ![r] = @ + 1]
    /\ UNCHANGED fired
saveContents(r, content) ==
    /\ contents' = [contents EXCEPT ![r] = content]
    /\ fired' = fireDidChangeContents(r, fired)
    /\ writes' = [writes EXCEPT ![r] = @ + 1]

\* MutableResource.readContents
readContents(r) == contents[r]

\* A successful write by the store of resource 0: the content is replaced
\* and the store fires its change event.
StoreWrite(r, content) ==
    /\ contents' = [contents EXCEPT ![r] = content]
    /\ fired' = [fired EXCEPT ![r] = @ + 1]
    /\ writes' = [writes EXCEPT ![r] = @ + 1]

(***************************************************************************)
(* Resource.save and Resource.trySaveContentChanges.  The call runs up to  *)
(* its first await; each later action is the continuation of an await.     *)
(***************************************************************************)
NoSave ==
    [pc |-> "idle", resource |-> NoResource, context |-> NoContext,
     token |-> Undefined, tokenAtCall |-> Undefined, outcome |-> Undefined,
     incCalls |-> 0, incArgs |-> <<>>, incOutcome |-> Undefined,
     fullCalls |-> 0, fullArgs |-> <<>>, fullOutcome |-> Undefined,
     cancelSeen |-> FALSE, writes |-> 0, before |-> Undefined]

SaveIdle == sv = [p \in Savers |-> NoSave] /\ saves = 0 /\ passed = 0

\* line 89: if (!resource.saveContents)
LacksSaveContents_wrongMember(r) ==
    ~caps[r].saveContents /\ ~caps[r].saveContentChanges
LacksSaveContents(r) == ~caps[r].saveContents

\* line 101: the save is not eligible for an incremental save
Ineligible_noHeuristic(r, context) ==
    context.changes = Absent \/ ~caps[r].saveContentChanges
Ineligible(r, context) ==
    \/ context.changes = Absent
    \/ ~caps[r].saveContentChanges
    \/ shouldSaveContent(context)

\* line 95: if (token && token.isCancellationRequested)
CancellationRequested_never(token) == FALSE
CancellationRequested(token) == token # Undefined /\ token = "cancelled"

\* save(resource, context, token), up to the first await.
SaveCall_checkTokenFirst(p, r, context, token) ==
    /\ sv[p].pc = "idle"
    /\ saves < MaxSaves
    /\ contents[r] # Undefined
    /\ saves' = saves + 1
    /\ LET call == [NoSave EXCEPT !.resource = r, !.context = context,
                                  !.token = token, !.tokenAtCall = token,
                                  !.before = contents[r]]
       IN  IF LacksSaveContents(r) \/ CancellationRequested(token)
           THEN sv' = [sv EXCEPT ![p] = [call EXCEPT !.pc = "done", !.outcome = Ok]]
           ELSE IF Ineligible(r, context)
           THEN sv' = [sv EXCEPT ![p] = [call EXCEPT !.pc = "check"]]
           ELSE sv' = [sv EXCEPT ![p] =
                        [call EXCEPT !.pc = "inc", !.incCalls = 1,
                           !.incArgs = <<The(context.changes), context.options>>]]
    /\ UNCHANGED <<heurVars, memVars, provVars, resVars, passed>>
SaveCall(p, r, context, token) ==
    /\ sv[p].pc = "idle"
    /\ saves < MaxSaves
    /\ contents[r] # Undefined
    /\ saves' = saves + 1
    /\ LET call == [NoSave EXCEPT !.resource = r, !.context = context,
                                  !.token = token, !.tokenAtCall = token,
                                  !.before = contents[r]]
       IN  IF LacksSaveContents(r)
           THEN sv' = [sv EXCEPT ![p] = [call EXCEPT !.pc = "done", !.outcome = Ok]]
           ELSE IF Ineligible(r, context)
           THEN sv' = [sv EXCEPT ![p] = [call EXCEPT !.pc = "check"]]
           ELSE sv' = [sv EXCEPT ![p] =
                        [call EXCEPT !.pc = "inc", !.incCalls = 1,
                           !.incArgs = <<The(context.changes), context.options>>]]
    /\ UNCHANGED <<heurVars, memVars, provVars, resVars, passed>>

\* The token's owner requests cancellation while the save runs.
Cancel(p) ==
    /\ sv[p].pc \in {"inc", "check", "full"}
    /\ sv[p].token = "live"
    /\ sv' = [sv EXCEPT ![p].token = "cancelled"]
    /\ UNCHANGED <<heurVars, memVars, provVars, resVars, saves, passed>>

\* lines 105-106: saveContentChanges succeeded; the store has applied the
\* changes, and what the content is now is the store's.
IncSucceed(p, content) ==
    /\ sv[p].pc = "inc"
    /\ StoreWrite(sv[p].resource, content)
    /\ sv' = [sv EXCEPT ![p].pc = "done", ![p].incOutcome = Ok,
                        ![p].outcome = Ok, ![p].writes = @ + 1]
    /\ UNCHANGED <<heurVars, memVars, provVars, caps, saves, passed>>

\* lines 107-111: saveContentChanges raised e; the catch returns false.
IncFail_rethrow(p, e) ==
    /\ sv[p].pc = "inc"
    /\ sv' = [sv EXCEPT ![p].pc = "done", ![p].incOutcome = e, ![p].outcome = e]
    /\ UNCHANGED <<heurVars, memVars, provVars, resVars, saves, passed>>
IncFail_rethrowOther(p, e) ==
    /\ sv[p].pc = "inc"
    /\ IF e \in {NotFound, OutOfSync}
       THEN sv' = [sv EXCEPT ![p].pc = "check", ![p].incOutcome = e]
       ELSE sv' = [sv EXCEPT ![p].pc = "done", ![p].incOutcome = e,
                           ![p].outcome = e]
    /\ UNCHANGED <<heurVars, memVars, provVars, resVars, saves, passed>>
IncFail(p, e) ==
    /\ sv[p].pc = "inc"
    /\ sv' = [sv EXCEPT ![p].pc = "check", ![p].incOutcome = e]
    /\ UNCHANGED <<heurVars, memVars, provVars, resVars, saves, passed>>

\* lines 95-98: the token is checked, then saveContents is called.  A
\* MutableResource's saveContents has run when the call returns; a call on
\* a resource that has no saveContents raises a TypeError.
SaveCheck(p) ==
    /\ sv[p].pc = "check"
    /\ LET r == sv[p].resource
           seen == [sv[p] EXCEPT !.cancelSeen = (sv[p].token = "cancelled")]
           called == [seen EXCEPT !.pc = "full", !.fullCalls = @ + 1,
                        !.fullArgs = <<sv[p].context.content, sv[p].context.options>>]
       IN  IF CancellationRequested(sv[p].token)
           THEN /\ sv' = [sv EXCEPT ![p] = [seen EXCEPT !.pc = "done", !.outcome = Ok]]
                /\ UNCHANGED resVars
           ELSE IF ~caps[r].saveContents
           THEN /\ sv' = [sv EXCEPT ![p] =
                            [seen EXCEPT !.pc = "done", !.outcome = OtherError]]
                /\ UNCHANGED resVars
           ELSE IF r \in Instances
           THEN /\ saveContents(r, sv[p].context.content)
                /\ sv' = [sv EXCEPT ![p] =
                            [called EXCEPT !.fullOutcome = Ok, !.writes = @ + 1]]
                /\ UNCHANGED caps
           ELSE /\ sv' = [sv EXCEPT ![p] = called]
                /\ UNCHANGED resVars
    /\ passed' = IF sv[p].token = "cancelled" THEN passed ELSE passed + 1
    /\ UNCHANGED <<heurVars, memVars, provVars, saves>>

\* line 98: the await of saveContents returns; save ends as it ended.
FullSucceed(p) ==
    /\ sv[p].pc = "full"
    /\ IF sv[p].resource \in Instances
       THEN /\ sv' = [sv EXCEPT ![p].pc = "done", ![p].outcome = Ok]
            /\ UNCHANGED resVars
       ELSE /\ StoreWrite(sv[p].resource, sv[p].fullArgs[1])
            /\ sv' = [sv EXCEPT ![p].pc = "done", ![p].outcome = Ok,
                                ![p].fullOutcome = Ok, ![p].writes = @ + 1]
            /\ UNCHANGED caps
    /\ UNCHANGED <<heurVars, memVars, provVars, saves, passed>>

FullFail(p, e) ==
    /\ sv[p].pc = "full"
    /\ sv[p].resource = Generic
    /\ sv' = [sv EXCEPT ![p].pc = "done", ![p].outcome = e, ![p].fullOutcome = e]
    /\ UNCHANGED <<heurVars, memVars, provVars, resVars, saves, passed>>

\* The caller has the result of the save and may issue another.
SaveReturn(p) ==
    /\ sv[p].pc = "done"
    /\ sv' = [sv EXCEPT ![p] = NoSave]
    /\ UNCHANGED <<heurVars, memVars, provVars, resVars, saves, passed>>

(***************************************************************************)
(* URIs.  The registry keys its map by uri.toString().                     *)
(***************************************************************************)
Uris == {[scheme |-> "inmemory", path |-> "a"], [scheme |-> "inmemory", path |-> "b"]}
toString(uri) == uri.scheme \o ":" \o uri.path
Keys == {toString(uri) : uri \in Uris}

AlreadyExists == "AlreadyExists"    \* Cannot add already existing ...
DoesNotExist == "DoesNotExist"      \* Cannot update non-existed ... / does not exist
Unregistered == "Unregistered"      \* A resource provider for ... is not registered
Rejected == "Rejected"              \* the error of a resolver of another store

(***************************************************************************)
(* InMemoryResources.                                                      *)
(***************************************************************************)
NoCall == [op |-> "none", key |-> "", content |-> Undefined,
           instance |-> NoResource, error |-> Undefined]

MemInit ==
    /\ resources = [k \in Keys |-> NoResource]
    /\ created = 0
    /\ disposeKey = [i \in Instances |-> Undefined]
    /\ initial = [i \in Instances |-> Undefined]
    /\ addReturned = [k \in Keys |-> NoResource]
    /\ disposed = [k \in Keys |-> FALSE]
    /\ released = {}
    /\ lastCall = NoCall
    /\ calls = 0

\* this.resources.has(key)
Has(key) == resources[key] # NoResource

Called(op, key, content, instance, error) ==
    /\ calls < MaxCalls
    /\ calls' = calls + 1
    /\ lastCall' = [op |-> op, key |-> key, content |-> content,
                    instance |-> instance, error |-> error]

\* add(uri, contents)
add_overwrite(uri, c) ==
    LET resourceUri == toString(uri)
        resource == created + 1
    IN  /\ created < MaxInst
        /\ created' = resource
        /\ disposeKey' = [disposeKey EXCEPT ![resource] = resourceUri]
        /\ initial' = [initial EXCEPT ![resource] = c]
        /\ contents' = [contents EXCEPT ![resource] = c]
        /\ caps' = [caps EXCEPT ![resource] = MutableCaps]
        /\ resources' = [resources EXCEPT ![resourceUri] = resource]
        /\ addReturned' = [addReturned EXCEPT ![resourceUri] = resource]
        /\ disposed' = [disposed EXCEPT ![resourceUri] = FALSE]
        /\ Called("add", resourceUri, c, resource, Undefined)
        /\ UNCHANGED <<fired, writes, released>>
add(uri, c) ==
    LET resourceUri == toString(uri)
        resource == created + 1
    IN  IF Has(resourceUri)
        THEN /\ Called("add", resourceUri, c, NoResource, AlreadyExists)
             /\ UNCHANGED <<resVars, resources, created, disposeKey, initial,
                            addReturned, disposed, released>>
        ELSE /\ created < MaxInst
             /\ created' = resource
             /\ disposeKey' = [disposeKey EXCEPT ![resource] = resourceUri]
             /\ initial' = [initial EXCEPT ![resource] = c]
             /\ contents' = [contents EXCEPT ![resource] = c]
             /\ caps' = [caps EXCEPT ![resource] = MutableCaps]
             /\ resources' = [resources EXCEPT ![resourceUri] = resource]
             /\ addReturned' = [addReturned EXCEPT ![resourceUri] = resource]
             /\ disposed' = [disposed EXCEPT ![resourceUri] = FALSE]
             /\ Called("add", resourceUri, c, resource, Undefined)
             /\ UNCHANGED <<fired, writes, released>>

\* update(uri, contents)
update_upsert(uri, c) ==
    LET resourceUri == toString(uri)
        resource == resources[resourceUri]
        fresh == created + 1
    IN  IF resource = NoResource
        THEN /\ created < MaxInst
             /\ created' = fresh
             /\ disposeKey' = [disposeKey EXCEPT ![fresh] = resourceUri]
             /\ initial' = [initial EXCEPT ![fresh] = c]
             /\ contents' = [contents EXCEPT ![fresh] = c]
             /\ caps' = [caps EXCEPT ![fresh] = MutableCaps]
             /\ resources' = [resources EXCEPT ![resourceUri] = fresh]
             /\ Called("update", resourceUri, c, fresh, Undefined)
             /\ UNCHANGED <<fired, writes, addReturned, disposed, released>>
        ELSE /\ saveContents(resource, c)
             /\ Called("update", resourceUri, c, resource, Undefined)
             /\ UNCHANGED <<caps, resources, created, disposeKey, initial,
                            addReturned, disposed, released>>
update_replace(uri, c) ==
    LET resourceUri == toString(uri)
        fresh == created + 1
    IN  IF resources[resourceUri] = NoResource
        THEN /\ Called("update", resourceUri, c, NoResource, DoesNotExist)
             /\ UNCHANGED <<resVars, resources, created, disposeKey, initial,
                            addReturned, disposed, released>>
        ELSE /\ created < MaxInst
             /\ created' = fresh
             /\ disposeKey' = [disposeKey EXCEPT ![fresh] = resourceUri]
             /\ initial' = [initial EXCEPT ![fresh] = c]
             /\ contents' = [contents EXCEPT ![fresh] = c]
             /\ caps' = [caps EXCEPT ![fresh] = MutableCaps]
             /\ resources' = [resources EXCEPT ![resourceUri] = fresh]
             /\ Called("update", resourceUri, c, fresh, Undefined)
             /\ UNCHANGED <<fired, writes, addReturned, disposed, released>>
update(uri, c) ==
    LET resourceUri == toString(uri)
        resource == resources[resourceUri]
    IN  IF resource = NoResource
        THEN /\ Called("update", resourceUri, c, NoResource, DoesNotExist)
             /\ UNCHANGED <<resVars, resources, created, disposeKey, initial,
                            addReturned, disposed, released>>
        ELSE /\ saveContents(resource, c)
             /\ Called("update", resourceUri, c, resource, Undefined)
             /\ UNCHANGED <<caps, resources, created, disposeKey, initial,
                            addReturned, disposed, released>>

\* resolve(uri): the instance it returns, or NoResource when it throws.
resolve_copy(uri) ==
    IF ~Has(toString(uri)) THEN NoResource
    ELSE created + 1
resolve(uri) ==
    LET uriString == toString(uri)
    IN  IF ~Has(uriString) THEN NoResource ELSE resources[uriString]

\* A caller calls resolve(uri).
Resolve_create(uri) ==
    LET resource == resolve(uri)
        fresh == created + 1
    IN  IF resource = NoResource /\ created < MaxInst
        THEN /\ created' = fresh
             /\ disposeKey' = [disposeKey EXCEPT ![fresh] = toString(uri)]
             /\ initial' = [initial EXCEPT ![fresh] = ""]
             /\ contents' = [contents EXCEPT ![fresh] = ""]
             /\ caps' = [caps EXCEPT ![fresh] = MutableCaps]
             /\ resources' = [resources EXCEPT ![toString(uri)] = fresh]
             /\ Called("resolve", toString(uri), Undefined, fresh, Undefined)
             /\ UNCHANGED <<fired, writes, addReturned, disposed, released>>
             /\ UNCHANGED <<heurVars, saveVars, provVars>>
        ELSE /\ Called("resolve", toString(uri), Undefined, resource,
                       IF resource = NoResource THEN DoesNotExist ELSE Undefined)
             /\ UNCHANGED <<resVars, resources, created, disposeKey, initial,
                            addReturned, disposed, released>>
             /\ UNCHANGED <<heurVars, saveVars, provVars>>
Resolve(uri) ==
    LET resource == resolve(uri)
    IN  /\ Called("resolve", toString(uri), Undefined, resource,
                  IF resource = NoResource THEN DoesNotExist ELSE Undefined)
        /\ UNCHANGED <<resVars, resources, created, disposeKey, initial,
                       addReturned, disposed, released>>
        /\ UNCHANGED <<heurVars, saveVars, provVars>>

\* The dispose of the instance that add constructed:
\* () => this.resources.delete(resourceUri)
dispose_noop(i) == resources
dispose(i) == [resources EXCEPT ![disposeKey[i]] = NoResource]

\* A holder of instance i calls i.dispose().
Dispose(i) ==
    /\ i <= created
    /\ resources' = dispose(i)
    /\ disposed' = [disposed EXCEPT ![disposeKey[i]] = TRUE]
    /\ released' = released \cup {i}
    /\ Called("dispose", disposeKey[i], Undefined, i, Undefined)
    /\ UNCHANGED <<resVars, created, disposeKey, initial, addReturned>>
    /\ UNCHANGED <<heurVars, saveVars, provVars>>

\* A holder of instance i calls i.readContents().
Read(i) ==
    /\ i <= created
    /\ Called("read", disposeKey[i], readContents(i), i, Undefined)
    /\ UNCHANGED <<resVars, resources, created, disposeKey, initial,
                   addReturned, disposed, released>>
    /\ UNCHANGED <<heurVars, saveVars, provVars>>

\* A holder of instance i calls i.saveContents(c).
SaveContentsCall(i, c) ==
    /\ i <= created
    /\ saveContents(i, c)
    /\ Called("saveContents", disposeKey[i], c, i, Undefined)
    /\ UNCHANGED <<caps, resources, created, disposeKey, initial,
                   addReturned, disposed, released>>
    /\ UNCHANGED <<heurVars, saveVars, provVars>>

\* Callers of the registry.
Add(uri, c) == add(uri, c) /\ UNCHANGED <<heurVars, saveVars, provVars>>

Update(uri, c) == update(uri, c) /\ UNCHANGED <<heurVars, saveVars, provVars>>

(***************************************************************************)
(* DefaultResourceProvider.get.  A resolver is the InMemoryResources       *)
(* registry or a resolver of another store, which resolves the keys it     *)
(* handles to a resource of its own and rejects the others.                *)
(***************************************************************************)
MemoryResolver == [kind |-> "memory", handles |-> {}]
StubResolvers == {[kind |-> "stub", handles |-> h] : h \in {{}, {"inmemory:a"}}}
ResolverKinds == {MemoryResolver} \cup StubResolvers

\* The resource that the k-th resolver, one of another store, produces.
StubResource(k) == 0 - (k + 1)

NoGet == [pc |-> "idle", uri |-> "", log |-> <<>>, outcome |-> Undefined,
          result |-> NoResource]

ProvIdle == resolvers = <<>> /\ gt = NoGet

\* resolver.resolve(uri) of the k-th resolver: what it returns or raises.
Invoke(k, uri) ==
    LET resolver == resolvers[k]
        resource == IF resolver.kind = "memory" THEN resolve(uri)
                    ELSE IF toString(uri) \in resolver.handles
                    THEN StubResource(k) ELSE NoResource
    IN  [resolver |-> k, result |-> resource,
         error |-> IF resource # NoResource THEN Undefined
                   ELSE IF resolver.kind = "memory" THEN DoesNotExist
                   ELSE Rejected]

\* lines 159-166 from the k-th resolver on: it is invoked and get awaits
\* it, or no resolver is left and get rejects.
TryFrom_skipFirst(g, k, uri) ==
    IF k + 1 <= Len(resolvers)
    THEN [g EXCEPT !.pc = "await", !.log = Append(@, Invoke(k + 1, uri))]
    ELSE [g EXCEPT !.pc = "done", !.outcome = Unregistered]
TryFrom_surface(g, k, uri) ==
    IF k <= Len(resolvers)
    THEN [g EXCEPT !.pc = "await", !.log = Append(@, Invoke(k, uri))]
    ELSE [g EXCEPT !.pc = "done",
            !.outcome = IF g.log = <<>> THEN Unregistered
                        ELSE g.log[Len(g.log)].error]
TryFrom(g, k, uri) ==
    IF k <= Len(resolvers)
    THEN [g EXCEPT !.pc = "await", !.log = Append(@, Invoke(k, uri))]
    ELSE [g EXCEPT !.pc = "done", !.outcome = Unregistered]

\* get(uri), up to the first await.
GetCall(uri) ==
    /\ gt.pc = "idle"
    /\ gt' = TryFrom([NoGet EXCEPT !.uri = toString(uri)], 1, uri)
    /\ UNCHANGED <<heurVars, resVars, saveVars, memVars, resolvers>>

\* The await of the resolver last invoked returns or raises.
GetResume ==
    /\ gt.pc = "await"
    /\ LET last == gt.log[Len(gt.log)]
           uri == CHOOSE u \in Uris : toString(u) = gt.uri
       IN  IF last.error = Undefined
           THEN gt' = [gt EXCEPT !.pc = "done", !.outcome = Ok,
                                 !.result = last.result]
           ELSE gt' = TryFrom(gt, Len(gt.log) + 1, uri)
    /\ UNCHANGED <<heurVars, resVars, saveVars, memVars, resolvers>>

\* The caller has the result of get and may call it again.
GetReturn ==
    /\ gt.pc = "done"
    /\ gt' = NoGet
    /\ UNCHANGED <<heurVars, resVars, saveVars, memVars, resolvers>>

(***************************************************************************)
(* The specifications.                                                     *)
(***************************************************************************)
ResIdle ==
    /\ caps = [r \in Resources |-> NoCaps]
    /\ contents = [r \in Resources |-> Undefined]
    /\ fired = [r \in Resources |-> 0]
    /\ writes = [r \in Resources |-> 0]

\* The heuristic alone, on every input within the bounds.
InitHeur == HeurInit /\ ResIdle /\ SaveIdle /\ MemInit /\ ProvIdle
NextHeur == HeurCall
SpecHeur == InitHeur /\ [][NextHeur]_vars

\* One caller saving to a resource of another store, one save at a time.
InitSave ==
    /\ HeurIdle
    /\ caps \in [Resources -> [saveContents : BOOLEAN, saveContentChanges : BOOLEAN]]
    /\ \A r \in Instances : caps[r] = NoCaps
    /\ contents = [r \in Resources |-> IF r = Generic THEN OldContent ELSE Undefined]
    /\ fired = [r \in Resources |-> 0]
    /\ writes = [r \in Resources |-> 0]
    /\ SaveIdle
    /\ MemInit
    /\ ProvIdle
NextSave ==
    \/ \E context \in SaveContexts, token \in Tokens : SaveCall(1, Generic, context, token)
    \/ Cancel(1)
    \/ \E content \in Contents : IncSucceed(1, content)
    \/ \E e \in Errors : IncFail(1, e)
    \/ SaveCheck(1)
    \/ FullSucceed(1)
    \/ \E e \in Errors : FullFail(1, e)
    \/ SaveReturn(1)
SpecSave == InitSave /\ [][NextSave]_vars

\* The registry, its instances and their holders.
InitMem == HeurIdle /\ ResIdle /\ SaveIdle /\ MemInit /\ ProvIdle
NextMem ==
    \/ \E uri \in Uris, c \in Contents : Add(uri, c)
    \/ \E uri \in Uris, c \in Contents : Update(uri, c)
    \/ \E uri \in Uris : Resolve(uri)
    \/ \E i \in Instances : Dispose(i)
    \/ \E i \in Instances : Read(i)
SpecMem == InitMem /\ [][NextMem]_vars

\* The registry and its instances, with a caller that saves to the
\* instances through Resource.save and holders that call saveContents.
MutableContexts ==
    [content : Contents, changes : {Absent, Some(<<>>)}, options : {Absent}]
UriA == [scheme |-> "inmemory", path |-> "a"]
NextMemSave ==
    \/ Add(UriA, "")
    \/ \E c \in Contents : Update(UriA, c)
    \/ Resolve(UriA)
    \/ \E i \in Instances : Dispose(i)
    \/ \E i \in Instances : Read(i)
    \/ \E i \in Instances, c \in Contents : SaveContentsCall(i, c)
    \/ \E i \in Instances, context \in MutableContexts, token \in Tokens :
            SaveCall(1, i, context, token)
    \/ Cancel(1)
    \/ SaveCheck(1)
    \/ FullSucceed(1)
    \/ SaveReturn(1)
SpecMemSave == InitMem /\ [][NextMemSave]_vars

\* Two callers that save to the one instance of the registry through
\* Resource.save, each call running between the steps of the other.
ConcContexts ==
    [content : Contents, changes : {Absent, Some(<<>>)}, options : Options]
NextConc ==
    \/ Add(UriA, "")
    \/ \E p \in Savers, context \in ConcContexts, token \in Tokens :
            SaveCall(p, 1, context, token)
    \/ \E p \in Savers : Cancel(p)
    \/ \E p \in Savers : SaveCheck(p)
    \/ \E p \in Savers : FullSucceed(p)
    \/ \E p \in Savers : SaveReturn(p)
SpecConc == InitMem /\ [][NextConc]_vars

\* The provider over a chain of resolvers, while the registry changes.
InitProv ==
    /\ HeurIdle /\ ResIdle /\ SaveIdle /\ MemInit
    /\ resolvers \in SeqsUpTo(ResolverKinds, MaxResolvers)
    /\ gt = NoGet
NextProv ==
    \/ \E uri \in Uris : GetCall(uri)
    \/ GetResume
    \/ GetReturn
    \/ \E uri \in Uris : Add(uri, "")
    \/ \E i \in Instances : Dispose(i)
    \/ \E uri \in Uris : Resolve(uri)
SpecProv == InitProv /\ [][NextProv]_vars

(***************************************************************************)
(* Properties of Resource.save, under SpecSave.                            *)
(***************************************************************************)
Done(p) == sv[p].pc = "done"
FellBack(p) == sv[p].incOutcome \in {NotFound, OutOfSync}
FullSaveDecides(p) ==
    /\ sv[p].fullCalls = 1
    /\ sv[p].fullArgs = <<sv[p].context.content, sv[p].context.options>>
    /\ sv[p].outcome = sv[p].fullOutcome

\* C1 as stated: whenever the incremental save of a save raised NotFound or
\* OutOfSync, the save has called saveContents exactly once, with
\* context.content and context.options, and has ended as that call ended.
C1_FallbackFullSaveOnce ==
    \A p \in Savers : Done(p) /\ FellBack(p) => FullSaveDecides(p)

\* C1 as amended: the same, for the saves that did not find cancellation
\* requested on their token when they checked it before the full save.
C1_FallbackFullSaveUnlessCancelled ==
    \A p \in Savers :
        Done(p) /\ FellBack(p) /\ ~sv[p].cancelSeen => FullSaveDecides(p)

C1_Witness ==
    /\ Done(1) /\ sv[1].incOutcome = NotFound /\ ~sv[1].cancelSeen
    /\ sv[1].incCalls = 1 /\ sv[1].fullCalls = 1
    /\ sv[1].outcome = OutOfSync

\* C2: a save that found cancellation requested on its token when it came
\* to the fallback full save has ended without an error, has not called
\* saveContents, and has not replaced the content of the resource.
C2_CancelledSaveWritesNothing ==
    \A p \in Savers :
        Done(p) /\ sv[p].cancelSeen =>
            /\ sv[p].outcome = Ok
            /\ sv[p].fullCalls = 0
            /\ sv[p].writes = 0
            /\ contents[sv[p].resource] = sv[p].before

C2_Witness ==
    /\ Done(1) /\ sv[1].cancelSeen /\ sv[1].incOutcome = OutOfSync
    /\ sv[1].outcome = Ok /\ sv[1].context.content # sv[1].before

\* C3: a save on a resource that has no saveContents has ended without an
\* error, has called neither saveContents nor saveContentChanges, and has
\* left the content as it was, whatever its context and its token are.
C3_NoFullSaveCapabilityNoOp ==
    \A p \in Savers :
        Done(p) /\ ~caps[sv[p].resource].saveContents =>
            /\ sv[p].outcome = Ok
            /\ sv[p].incCalls = 0
            /\ sv[p].fullCalls = 0
            /\ sv[p].writes = 0
            /\ contents[sv[p].resource] = sv[p].before

C3_Witness ==
    /\ Done(1) /\ ~caps[sv[1].resource].saveContents
    /\ caps[sv[1].resource].saveContentChanges
    /\ sv[1].context.changes # Absent /\ ~shouldSaveContent(sv[1].context)
    /\ sv[1].token = Undefined /\ sv[1].outcome = Ok

(***************************************************************************)
(* Properties of Resource.shouldSaveContent, under SpecHeur.               *)
(***************************************************************************)
HeurDone == hPc = "done" /\ hContext.changes # Absent
HeurSum == SumLen(The(hContext.changes))
HeurLen == Len(hContext.content)

\* C4 as stated: for a present change list the heuristic returns false when
\* the serialized lengths of the changes sum to less than content.length,
\* and true when they sum to content.length or more.
C4_TrueFromContentLength ==
    HeurDone => The(hResult) = (HeurSum >= HeurLen)

\* C4 as amended: for a present change list the heuristic returns false
\* when the serialized lengths of the changes sum to content.length or
\* less, and true when they sum to more than content.length.
C4_TrueAboveContentLength ==
    HeurDone => The(hResult) = (HeurSum > HeurLen)

C4_Witness ==
    /\ HeurDone /\ Len(The(hContext.changes)) = 2
    /\ HeurSum = HeurLen /\ hResult = Some(FALSE)

(***************************************************************************)
(* Properties of DefaultResourceProvider.get, under SpecProv.              *)
(***************************************************************************)
GetDone == gt.pc = "done"
Failed(entry) == entry.error # Undefined

\* C5: the resolvers are invoked in registration order, each once, and none
\* after one that succeeded; a get whose last invoked resolver succeeded
\* ends with the resource of that resolver, and no get ends well otherwise.
C5_FirstSuccessDecides ==
    /\ \A j \in 1..Len(gt.log) : gt.log[j].resolver = j
    /\ \A j \in 1..(Len(gt.log) - 1) : Failed(gt.log[j])
    /\ Len(gt.log) <= Len(resolvers)
    /\ GetDone /\ gt.log # <<>> /\ ~Failed(gt.log[Len(gt.log)]) =>
            /\ gt.outcome = Ok
            /\ gt.result = gt.log[Len(gt.log)].result
            /\ gt.result # NoResource
    /\ GetDone /\ gt.outcome = Ok =>
            gt.log # <<>> /\ ~Failed(gt.log[Len(gt.log)])

C5_Witness ==
    /\ GetDone /\ gt.outcome = Ok
    /\ Len(resolvers) = 3 /\ Len(gt.log) = 2
    /\ resolvers[2].kind = "memory" /\ gt.result \in Instances
    /\ gt.uri \in resolvers[3].handles

\* C6: a get ends with the error of the provider exactly when every
\* registered resolver was invoked and failed, as it always does with no
\* resolver registered; it never ends with the error of a resolver.
C6_UnregisteredIffAllFail ==
    GetDone =>
        /\ gt.outcome \in {Ok, Unregistered}
        /\ gt.outcome = Unregistered <=>
                /\ Len(gt.log) = Len(resolvers)
                /\ \A j \in 1..Len(gt.log) : Failed(gt.log[j])
        /\ resolvers = <<>> => gt.outcome = Unregistered

C6_Witness ==
    /\ GetDone /\ gt.outcome = Unregistered
    /\ Len(resolvers) = 2 /\ Len(gt.log) = 2
    /\ gt.log[1].error = Rejected /\ gt.log[2].error = DoesNotExist

(***************************************************************************)
(* Properties of InMemoryResources, under SpecMem.                         *)
(***************************************************************************)
CallStep == calls' = calls + 1
RegistryUnchanged == UNCHANGED <<resources, created, caps, contents, fired, writes>>

\* C7: an entry of the registry is the instance that the add of its key
\* returned, a resolve of a key that has an entry returns that instance,
\* and an instance whose content was never replaced reads as the contents
\* it was added with.
C7_ResolveReturnsAdded ==
    /\ \A k \in Keys : Has(k) => resources[k] = addReturned[k]
    /\ lastCall.op = "resolve" /\ Has(lastCall.key) =>
            /\ lastCall.error = Undefined
            /\ lastCall.instance = addReturned[lastCall.key]
    /\ lastCall.op = "read" /\ writes[lastCall.instance] = 0 =>
            lastCall.content = initial[lastCall.instance]

C7_Witness ==
    /\ lastCall.op = "resolve" /\ lastCall.instance \in Instances
    /\ lastCall.instance = addReturned[lastCall.key]
    /\ readContents(lastCall.instance) = initial[lastCall.instance]
    /\ created = 2

\* C8: an add of a key that has an entry raises the already-exists error
\* and leaves the map, every content and every count of fired events as
\* they were.
C8_AddExistingFails ==
    [][CallStep /\ lastCall'.op = "add" /\ Has(lastCall'.key) =>
            lastCall'.error = AlreadyExists /\ RegistryUnchanged]_vars

C8_Witness ==
    /\ lastCall.op = "add" /\ lastCall.error = AlreadyExists
    /\ Has(lastCall.key)
    /\ contents[resources[lastCall.key]] # lastCall.content

\* C9: disposing an instance that add returned removes the entry of its key
\* and no other; from then until the key is added again a resolve and an
\* update of the key raise the does-not-exist error, and an add of the key
\* succeeds.
C9_DisposeRemovesEntry ==
    [][CallStep =>
        /\ lastCall'.op = "dispose" =>
              /\ resources'[lastCall'.key] = NoResource
              /\ \A k \in Keys \ {lastCall'.key} : resources'[k] = resources[k]
        /\ lastCall'.op \in {"resolve", "update"} /\ disposed[lastCall'.key] =>
              lastCall'.error = DoesNotExist
        /\ lastCall'.op = "add" /\ disposed[lastCall'.key] =>
              /\ lastCall'.error = Undefined
              /\ lastCall'.instance \in Instances
              /\ resources'[lastCall'.key] = lastCall'.instance]_vars

C9_Witness ==
    /\ lastCall.op = "resolve" /\ lastCall.error = DoesNotExist
    /\ disposed[lastCall.key]
    /\ \E k \in Keys \ {lastCall.key} : Has(k)

\* C10: an update of a key that has no entry raises the does-not-exist
\* error and leaves the map, every content and every count of fired events
\* as they were.
C10_UpdateMissingFails ==
    [][CallStep /\ lastCall'.op = "update" /\ ~Has(lastCall'.key) =>
            lastCall'.error = DoesNotExist /\ RegistryUnchanged]_vars

C10_Witness ==
    /\ lastCall.op = "update" /\ lastCall.error = DoesNotExist
    /\ ~Has(lastCall.key) /\ created >= 1

(***************************************************************************)
(* Properties of MutableResource's change event, under SpecMemSave.        *)
(***************************************************************************)
\* The step is a call that replaces the content of instance i: an update
\* of its key or a saveContents on it that raised nothing, or a save to it
\* that came to line 98.
Replaces(i) ==
    \/ /\ CallStep
       /\ lastCall'.op \in {"update", "saveContents"}
       /\ lastCall'.error = Undefined
       /\ lastCall'.instance = i
    \/ \E p \in Savers :
        sv[p].pc = "check" /\ sv'[p].pc = "full" /\ sv[p].resource = i

\* C11: a step fires the change event of an instance once when it is a
\* call that replaces the content of the instance, and not at all when it
\* is any other call; so an instance has fired as many events as its
\* content was replaced.
C11_FiredOncePerReplacement ==
    /\ [][\A i \in Instances :
            fired'[i] = fired[i] + (IF Replaces(i) THEN 1 ELSE 0)]_vars
    /\ [](\A i \in Instances : fired[i] = writes[i])

C11_Witness ==
    /\ fired[1] = 3 /\ writes[1] = 3
    /\ Done(1) /\ sv[1].resource = 1 /\ sv[1].fullCalls = 1
    /\ lastCall.op = "update" /\ lastCall.error = DoesNotExist

(***************************************************************************)
(* More properties of InMemoryResources, under SpecMem.                    *)
(***************************************************************************)
\* C12: an update of a key that has an entry raises nothing, returns the
\* instance that the map holds for the key and leaves the map as it was;
\* when it returns, the content of that instance is the content given, so
\* that is what the instance reads as.
C12_UpdateReturnsRegistered ==
    /\ [][CallStep /\ lastCall'.op = "update" /\ Has(lastCall'.key) =>
            /\ lastCall'.error = Undefined
            /\ lastCall'.instance = resources[lastCall'.key]
            /\ resources' = resources
            /\ contents'[lastCall'.instance] = lastCall'.content]_vars
    /\ [](lastCall.op = "update" /\ lastCall.error = Undefined =>
            readContents(lastCall.instance) = lastCall.content)

C12_Witness ==
    /\ lastCall.op = "update" /\ lastCall.error = Undefined
    /\ resources[lastCall.key] = lastCall.instance
    /\ readContents(lastCall.instance) = lastCall.content
    /\ initial[lastCall.instance] # lastCall.content

\* C13: a dispose of an instance whose dispose was called before raises
\* nothing and leaves the map as it was just before.
C13_DisposeTwiceReleasesNothing ==
    [][CallStep /\ lastCall'.op = "dispose" /\ lastCall'.instance \in released =>
            lastCall'.error = Undefined /\ resources' = resources]_vars

\* C14: an instance is in the map under no key but the one it was added
\* as; an entry leaves the map only in a dispose of the instance that the
\* entry holds, so a dispose of an instance that the map does not hold
\* leaves the map as it was.
C14_EntryRemovedOnlyByItsInstance ==
    /\ [](\A k \in Keys : Has(k) => disposeKey[resources[k]] = k)
    /\ [][\A k \in Keys : Has(k) /\ resources'[k] # resources[k] =>
            /\ CallStep /\ lastCall'.op = "dispose"
            /\ lastCall'.instance = resources[k]]_vars
    /\ [][CallStep /\ lastCall'.op = "dispose"
              /\ resources[lastCall'.key] # lastCall'.instance =>
            resources' = resources]_vars

(***************************************************************************)
(* More properties of Resource.save, under SpecSave.                       *)
(***************************************************************************)
Started(p) == sv[p].pc # "idle"
Eligible(p) ==
    /\ sv[p].context.changes # Absent
    /\ caps[sv[p].resource].saveContentChanges
    /\ ~shouldSaveContent(sv[p].context)

\* C15: a save on a resource that has saveContents has called
\* saveContentChanges, once, if changes were given, the resource has
\* saveContentChanges and the heuristic did not prefer a full save, and has
\* not called it otherwise; when that call succeeded the save has ended
\* without an error and without a call of saveContents; no save has
\* replaced the content more than once.
C15_IncrementalIffEligible ==
    \A p \in Savers :
        /\ Started(p) /\ caps[sv[p].resource].saveContents =>
              sv[p].incCalls = (IF Eligible(p) THEN 1 ELSE 0)
        /\ sv[p].incCalls <= 1
        /\ sv[p].incOutcome = Ok =>
              Done(p) /\ sv[p].outcome = Ok /\ sv[p].fullCalls = 0
        /\ sv[p].writes <= 1

C15_Witness ==
    /\ Done(1) /\ caps[sv[1].resource].saveContents /\ Eligible(1)
    /\ sv[1].incCalls = 1 /\ sv[1].incOutcome = Ok /\ sv[1].outcome = Ok
    /\ sv[1].fullCalls = 0 /\ sv[1].writes = 1

\* C16: a save whose incremental save raised an error other than NotFound
\* and OutOfSync has not ended with the error of the incremental save: it
\* ended without an error and without a full save when it found
\* cancellation requested, and else it called saveContents once and ended
\* as that call ended.
C16_OtherFailureFallsBack ==
    \A p \in Savers :
        /\ sv[p].incOutcome = OtherError /\ sv[p].pc = "check" =>
              sv[p].outcome = Undefined /\ sv[p].fullCalls = 0
        /\ Done(p) /\ sv[p].incOutcome = OtherError =>
              IF sv[p].cancelSeen
              THEN sv[p].outcome = Ok /\ sv[p].fullCalls = 0
              ELSE FullSaveDecides(p)

C16_Witness ==
    /\ Done(1) /\ sv[1].incOutcome = OtherError /\ ~sv[1].cancelSeen
    /\ sv[1].fullCalls = 1 /\ sv[1].fullOutcome = Ok /\ sv[1].outcome = Ok
    /\ sv[1].writes = 1

\* C17: the token is looked at nowhere but before the full save: a save
\* that is eligible for the incremental save has called saveContentChanges
\* whatever its token was when save was called, and when that call
\* succeeded the content was replaced and the save ended without an error;
\* a save finds cancellation only in the step that checks the token, and a
\* save that has called saveContents ends as that call ended, whatever its
\* token is by then.
C17_TokenCheckedOnceBeforeFullSave ==
    /\ [](\A p \in Savers :
            /\ Started(p) /\ caps[sv[p].resource].saveContents /\ Eligible(p) =>
                  sv[p].incCalls = 1
            /\ Done(p) /\ sv[p].incOutcome = Ok =>
                  sv[p].outcome = Ok /\ sv[p].writes = 1 /\ ~sv[p].cancelSeen
            /\ Done(p) /\ sv[p].fullCalls = 1 =>
                  sv[p].outcome = sv[p].fullOutcome /\ ~sv[p].cancelSeen)
    /\ [][\A p \in Savers :
            /\ sv'[p].cancelSeen /\ ~sv[p].cancelSeen => sv[p].pc = "check"
            /\ sv[p].pc = "full" => sv'[p].pc \in {"full", "done"}]_vars

C17_Witness ==
    /\ Done(1) /\ sv[1].tokenAtCall = "cancelled"
    /\ sv[1].incCalls = 1 /\ sv[1].incOutcome = Ok /\ sv[1].outcome = Ok
    /\ sv[1].writes = 1 /\ writes[sv[1].resource] >= 1

\* C18: the heuristic prefers a full save for every context that has no
\* changes, whatever the content is, and a save whose context has no
\* changes has not called saveContentChanges, also on a resource that has
\* saveContentChanges.
C18_NoChangesPrefersFullSave ==
    /\ \A n \in 0..MaxContentLen :
          shouldSaveContent([content |-> Repeat("x", n), changes |-> Absent,
                             options |-> Absent])
    /\ \A p \in Savers :
          Started(p) /\ sv[p].context.changes = Absent =>
              shouldSaveContent(sv[p].context) /\ sv[p].incCalls = 0

C18_Witness ==
    /\ Done(1) /\ sv[1].context.changes = Absent
    /\ sv[1].context.content # ""
    /\ caps[sv[1].resource].saveContents
    /\ caps[sv[1].resource].saveContentChanges
    /\ sv[1].incCalls = 0 /\ sv[1].fullCalls = 1

(***************************************************************************)
(* The lookups, under SpecProv.                                            *)
(***************************************************************************)
\* C19: a step of get, and a call of resolve, whether it ends well or with
\* an error, leaves the map, the instances constructed, and the content,
\* the members and the events fired of every resource as they were.
C19_LookupIsReadOnly ==
    [][(gt' # gt \/ (CallStep /\ lastCall'.op = "resolve")) =>
            UNCHANGED <<resources, created, caps, contents, fired, writes>>]_vars

C19_Witness ==
    /\ GetDone /\ gt.outcome = Ok /\ gt.result \in Instances
    /\ resources[gt.uri] = gt.result
    /\ lastCall.op = "resolve" /\ lastCall.error = DoesNotExist
    /\ ~Has(lastCall.key)

(***************************************************************************)
(* Saves that run at the same time on one MutableResource, under SpecConc. *)
(***************************************************************************)
Checks(p) == sv[p].pc = "check" /\ sv'[p].pc # "check"

\* C20: whatever the order of the steps of the saves is, a save that did
\* not find cancellation at its check has replaced the content once and
\* ends without an error, whatever its changes and options are; the step
\* in which a save calls saveContents leaves the content equal to the
\* content of that save's context, and no other step changes it, so the
\* content is that of the save whose full save ran last; the events fired
\* are as many as the saves that passed the check.
C20_ConcurrentSavesLastWins ==
    /\ [](\A p \in Savers :
            /\ sv[p].pc \in {"full", "done"} /\ ~sv[p].cancelSeen =>
                  sv[p].fullCalls = 1 /\ sv[p].writes = 1
            /\ Done(p) /\ ~sv[p].cancelSeen => sv[p].outcome = Ok
            /\ Done(p) /\ sv[p].cancelSeen =>
                  sv[p].fullCalls = 0 /\ sv[p].writes = 0)
    /\ [](created >= 1 => fired[1] = passed /\ contents[1] \in Contents)
    /\ [][\A p \in Savers :
            Checks(p) /\ ~sv'[p].cancelSeen =>
                contents'[1] = sv[p].context.content]_vars
    /\ [][created >= 1 /\ contents'[1] # contents[1] =>
            \E p \in Savers : Checks(p) /\ ~sv'[p].cancelSeen]_vars

C20_Witness ==
    /\ sv[1].pc = "full" /\ Done(2) /\ sv[2].outcome = Ok
    /\ ~sv[1].cancelSeen /\ ~sv[2].cancelSeen
    /\ sv[1].context.changes # Absent /\ sv[2].context.options # Absent
    /\ sv[1].context.content = "" /\ sv[2].context.content # ""
    /\ sv[1].before = "" /\ sv[2].before = ""
    /\ contents[1] = sv[2].context.content
    /\ fired[1] = 2 /\ passed = 2
====
